---------------------------- MODULE Spec2Model ----------------------------
(***************************************************************************)
(* A model of the gravlax scanner (scanTokens) and of its driver (main,    *)
(* run_file, run_prompt, run).  Source text is a sequence of one-character *)
(* strings; offsets are 0-based as in the program.                         *)
(***************************************************************************)
EXTENDS Integers, Sequences, FiniteSets, TLC

VARIABLES
    source,     \* s.source of the scanner being run
    tokens,     \* s.tokens
    start,      \* offset of the lexeme being matched
    current,    \* offset of the next unread character
    line,       \* the line counter
    had_error,  \* the module-level error flag
    errors,     \* what console.error has printed, one record per report()
    pc,         \* where control is
    argv,       \* process.argv
    stdout,     \* what stdout.write has written
    exitCode,   \* the status the process ended with, NoExit while it runs
    linesRead,  \* lines the console iterator has delivered
    scans       \* calls of run() so far

scanVars   == <<source, tokens, start, current, line, had_error, errors>>
driverVars == <<argv, stdout, exitCode, linesRead, scans>>
vars       == <<source, tokens, start, current, line, had_error, errors, pc,
                argv, stdout, exitCode, linesRead, scans>>

-----------------------------------------------------------------------------
(* Bounds *)

MaxLen == 3

MaxLineLen == 3

MaxLines == 2

MaxPart == 2

-----------------------------------------------------------------------------
(* Characters *)

NUL == "NUL"

Digits == {"0", "1", "2", "3", "4", "5", "6", "7", "8", "9"}

LowerCase == {"a", "b", "c", "d", "e", "f", "g", "h", "i", "j", "k", "l", "m",
              "n", "o", "p", "q", "r", "s", "t", "u", "v", "w", "x", "y", "z"}

UpperCase == {"A", "B", "C", "D", "E", "F", "G", "H", "I", "J", "K", "L", "M",
              "N", "O", "P", "Q", "R", "S", "T", "U", "V", "W", "X", "Y", "Z"}

isDigit(c) == c \in Digits

isAlpha(c) == c \in LowerCase \/ c \in UpperCase \/ c = "_"

\* isAlphaNumeric without the digits
isAlphaNumericNoDigit(c) == isAlpha(c)

isAlphaNumeric(c) == isAlpha(c) \/ isDigit(c)

-----------------------------------------------------------------------------
(* Token kinds and the keyword table *)

SingleCharKind ==
    "(" :> "LEFT_PAREN" @@ ")" :> "RIGHT_PAREN" @@ "{" :> "LEFT_BRACE" @@
    "}" :> "RIGHT_BRACE" @@ "," :> "COMMA" @@ "." :> "DOT" @@
    "-" :> "MINUS" @@ "+" :> "PLUS" @@ ";" :> "SEMICOLON" @@ "*" :> "STAR"

OneCharKind ==
    "!" :> "BANG" @@ "=" :> "EQUAL" @@ "<" :> "LESS" @@ ">" :> "GREATER"

TwoCharKind ==
    "!" :> "BANG_EQUAL" @@ "=" :> "EQUAL_EQUAL" @@ "<" :> "LESS_EQUAL" @@
    ">" :> "GREATER_EQUAL"

keywords ==
    <<"a", "n", "d">> :> "AND" @@
    <<"c", "l", "a", "s", "s">> :> "CLASS" @@
    <<"e", "l", "s", "e">> :> "ELSE" @@
    <<"f", "a", "l", "s", "e">> :> "FALSE" @@
    <<"f", "o", "r">> :> "FOR" @@
    <<"f", "u", "n">> :> "FUN" @@
    <<"i", "f">> :> "IF" @@
    <<"n", "i", "l">> :> "NIL" @@
    <<"o", "r">> :> "OR" @@
    <<"p", "r", "i", "n", "t">> :> "PRINT" @@
    <<"r", "e", "t", "u", "r", "n">> :> "RETURN" @@
    <<"s", "u", "p", "e", "r">> :> "SUPER" @@
    <<"t", "h", "i", "s">> :> "THIS" @@
    <<"t", "r", "u", "e">> :> "TRUE" @@
    <<"v", "a", "r">> :> "VAR" @@
    <<"w", "h", "i", "l", "e">> :> "WHILE"

ReservedKinds == {keywords[w] : w \in DOMAIN keywords}

TokenType ==
    {SingleCharKind[c] : c \in DOMAIN SingleCharKind} \cup {"SLASH"} \cup
    {OneCharKind[c] : c \in DOMAIN OneCharKind} \cup
    {TwoCharKind[c] : c \in DOMAIN TwoCharKind} \cup
    {"IDENTIFIER", "STRING", "NUMBER", "EOF"} \cup ReservedKinds

\* The properties every object inherits from Object.prototype: an index
\* expression on a plain object finds them when the object has no own
\* property of that name.
ObjectPrototype ==
    <<"c", "o", "n", "s", "t", "r", "u", "c", "t", "o", "r">> :> "Object.prototype.constructor" @@
    <<"_", "_", "d", "e", "f", "i", "n", "e", "G", "e", "t", "t", "e", "r", "_", "_">> :> "Object.prototype.__defineGetter__" @@
    <<"_", "_", "d", "e", "f", "i", "n", "e", "S", "e", "t", "t", "e", "r", "_", "_">> :> "Object.prototype.__defineSetter__" @@
    <<"h", "a", "s", "O", "w", "n", "P", "r", "o", "p", "e", "r", "t", "y">> :> "Object.prototype.hasOwnProperty" @@
    <<"_", "_", "l", "o", "o", "k", "u", "p", "G", "e", "t", "t", "e", "r", "_", "_">> :> "Object.prototype.__lookupGetter__" @@
    <<"_", "_", "l", "o", "o", "k", "u", "p", "S", "e", "t", "t", "e", "r", "_", "_">> :> "Object.prototype.__lookupSetter__" @@
    <<"i", "s", "P", "r", "o", "t", "o", "t", "y", "p", "e", "O", "f">> :> "Object.prototype.isPrototypeOf" @@
    <<"p", "r", "o", "p", "e", "r", "t", "y", "I", "s", "E", "n", "u", "m", "e", "r", "a", "b", "l", "e">> :> "Object.prototype.propertyIsEnumerable" @@
    <<"t", "o", "S", "t", "r", "i", "n", "g">> :> "Object.prototype.toString" @@
    <<"v", "a", "l", "u", "e", "O", "f">> :> "Object.prototype.valueOf" @@
    <<"_", "_", "p", "r", "o", "t", "o", "_", "_">> :> "Object.prototype.__proto__" @@
    <<"t", "o", "L", "o", "c", "a", "l", "e", "S", "t", "r", "i", "n", "g">> :> "Object.prototype.toLocaleString"

undefined == "undefined"

\* keywords[text]
KeywordLookup(text) ==
    IF text \in DOMAIN keywords THEN keywords[text]
    ELSE IF text \in DOMAIN ObjectPrototype THEN ObjectPrototype[text]
    ELSE undefined

NoLiteral == [tag |-> "none"]

StringLiteral(chars) == [tag |-> "string", value |-> chars]

RECURSIVE DigitsValue(_)
DigitsValue(ds) ==
    IF ds = <<>> THEN 0
    ELSE 10 * DigitsValue(SubSeq(ds, 1, Len(ds) - 1))
         + (CHOOSE d \in 0..9 : ToString(d) = ds[Len(ds)])

RECURSIVE StripTrailingZeros(_)
StripTrailingZeros(ds) ==
    IF ds # <<>> /\ ds[Len(ds)] = "0"
    THEN StripTrailingZeros(SubSeq(ds, 1, Len(ds) - 1))
    ELSE ds

RECURSIVE Pow10(_)
Pow10(n) == IF n = 0 THEN 1 ELSE 10 * Pow10(n - 1)

\* Number.parseFloat on a lexeme of the form digits [ "." digits ]: the value
\* mant / 10^scale, with the fraction's trailing zeros dropped so that equal
\* values have equal representations.
ParseFloat(text) ==
    LET dots == {i \in 1..Len(text) : text[i] = "."}
        dot  == IF dots = {} THEN Len(text) + 1 ELSE CHOOSE i \in dots : TRUE
        ip   == SubSeq(text, 1, dot - 1)
        fp   == StripTrailingZeros(SubSeq(text, dot + 1, Len(text)))
    IN  [tag   |-> "number",
         mant  |-> DigitsValue(ip) * Pow10(Len(fp)) + DigitsValue(fp),
         scale |-> Len(fp)]

-----------------------------------------------------------------------------
(* The scanner.  A scanner state r is a record of the variables scanTokens  *)
(* and report() work on; each operator below is one function of the        *)
(* program, taking the state before and giving the state after.            *)

ScannerState(src, flag, errs) ==
    [source |-> src, tokens |-> <<>>, start |-> 0, current |-> 0, line |-> 1,
     had_error |-> flag, errors |-> errs, pc |-> "scan"]

\* String.prototype.charAt: the empty string outside the text
charAt(src, i) == IF i >= 0 /\ i < Len(src) THEN src[i + 1] ELSE ""

\* String.prototype.substring(from, to) for 0 <= from, to
substring(src, from, to) ==
    LET lo == IF from < to THEN from ELSE to
        hi == IF from < to THEN to ELSE from
        h  == IF hi > Len(src) THEN Len(src) ELSE hi
    IN  SubSeq(src, lo + 1, h)

report(r, ln, where, message) ==
    [r EXCEPT !.errors = Append(@, [line |-> ln, where |-> where,
                                    message |-> message]),
              !.had_error = TRUE]

\* error() that reports nothing
errorSilent(r, ln, message) == r

error(r, ln, message) == report(r, ln, "", message)

isAtEnd(r) == r.current >= Len(r.source)

\* advance(): the character returned, and the state after
advanced(r) == charAt(r.source, r.current)

advance(r) == [r EXCEPT !.current = @ + 1]

addToken(r, t, l) ==
    [r EXCEPT !.tokens = Append(@, [type    |-> t,
                                    lexeme  |-> substring(r.source, r.start, r.current),
                                    literal |-> l,
                                    line    |-> r.line])]

\* match(expected): the value returned, and the state after
matches(r, expected) ==
    ~isAtEnd(r) /\ charAt(r.source, r.current) = expected

\* match() that forgets to consume the character
matchNoConsume(r, expected) == r

match(r, expected) ==
    IF matches(r, expected) THEN [r EXCEPT !.current = @ + 1] ELSE r

peek(r) == IF isAtEnd(r) THEN NUL ELSE charAt(r.source, r.current)

peekNext(r) ==
    IF r.current + 1 >= Len(r.source) THEN NUL
    ELSE charAt(r.source, r.current + 1)

\* stringLoop with an empty loop body
stringLoopStuck(r) == r

\* stringLoop that does not count the newlines inside the literal
stringLoopNoLine(r) == advance(r)

\* stringLoop that counts every character of the literal as a line
stringLoopCountsAll(r) == advance([r EXCEPT !.line = @ + 1])

\* string(): one iteration of the while loop
stringLoop(r) ==
    advance(IF peek(r) = "\n" THEN [r EXCEPT !.line = @ + 1] ELSE r)

\* stringEnd that also emits the text read so far when the input has ended
stringEndTruncated(r) ==
    IF isAtEnd(r)
    THEN [addToken(error(r, r.line, "Unterminated string."), "STRING",
                   StringLiteral(substring(r.source, r.start + 1, r.current)))
            EXCEPT !.pc = "scan"]
    ELSE LET a == advance(r)
             value == substring(a.source, a.start + 1, a.current - 1)
         IN  [addToken(a, "STRING", StringLiteral(value)) EXCEPT !.pc = "scan"]

\* stringEnd whose literal keeps the quotes
stringEndKeepsQuotes(r) ==
    IF isAtEnd(r)
    THEN [error(r, r.line, "Unterminated string.") EXCEPT !.pc = "scan"]
    ELSE LET a == advance(r)
             value == substring(a.source, a.start, a.current)
         IN  [addToken(a, "STRING", StringLiteral(value)) EXCEPT !.pc = "scan"]

\* stringEnd that consumes a closing quote before looking for the end
stringEndAdvancesFirst(r) ==
    LET a == advance(r)
    IN  IF isAtEnd(r)
        THEN [error(a, a.line, "Unterminated string.") EXCEPT !.pc = "scan"]
        ELSE [addToken(a, "STRING",
                       StringLiteral(substring(a.source, a.start + 1, a.current - 1)))
                EXCEPT !.pc = "scan"]

\* string(): after the loop
stringEnd(r) ==
    IF isAtEnd(r)
    THEN [error(r, r.line, "Unterminated string.") EXCEPT !.pc = "scan"]
    ELSE LET a == advance(r)
             value == substring(a.source, a.start + 1, a.current - 1)
         IN  [addToken(a, "STRING", StringLiteral(value)) EXCEPT !.pc = "scan"]

\* hasFraction without the look at the character after the dot
hasFractionAnyDot(r) == peek(r) = "."

\* number(): the fractional part is taken when a digit follows the dot
hasFraction(r) == peek(r) = "." /\ isDigit(peekNext(r))

numberEnd(r) ==
    [addToken(r, "NUMBER", ParseFloat(substring(r.source, r.start, r.current)))
        EXCEPT !.pc = "scan"]

\* identifier(): after the loop
identifierEnd(r) ==
    LET text == substring(r.source, r.start, r.current)
        type == KeywordLookup(text)
    IN  [addToken(r, IF type = undefined THEN "IDENTIFIER" ELSE type, NoLiteral)
            EXCEPT !.pc = "scan"]

\* scanEnd without the EOF push
scanEndNoEof(r) == [r EXCEPT !.pc = "done"]

\* scan(): the end of the main loop
scanEnd(r) ==
    [r EXCEPT !.tokens = Append(@, [type |-> "EOF", lexeme |-> <<>>,
                                    literal |-> NoLiteral, line |-> r.line]),
              !.pc = "done"]

\* scanToken(), up to the first loop of string(), number(), identifier() or
\* of a line comment
scanToken(r) ==
    LET c == advanced(r)
        a == advance(r)
    IN  CASE c \in DOMAIN SingleCharKind -> addToken(a, SingleCharKind[c], NoLiteral)
          [] c \in DOMAIN OneCharKind ->
                addToken(match(a, "="),
                         IF matches(a, "=") THEN TwoCharKind[c] ELSE OneCharKind[c],
                         NoLiteral)
          [] c = "/" ->
                IF matches(a, "/") THEN [match(a, "/") EXCEPT !.pc = "comment"]
                ELSE addToken(a, "SLASH", NoLiteral)
          [] c \in {" ", "\r", "\t"} -> a
          [] c = "\n" -> [a EXCEPT !.line = @ + 1]
          [] c = "\"" -> [a EXCEPT !.pc = "string"]
          [] OTHER ->
                IF isDigit(c) THEN [a EXCEPT !.pc = "number"]
                ELSE IF isAlpha(c) THEN [a EXCEPT !.pc = "identifier"]
                ELSE error(a, a.line, "Unexpected character.")

\* scan(): one iteration of the main loop
scanLoop(r) == scanToken([r EXCEPT !.start = r.current])

\* One step of scanTokens from state r (r.pc # "done")
ScanStep(r) ==
    CASE r.pc = "scan" -> IF isAtEnd(r) THEN scanEnd(r) ELSE scanLoop(r)
      [] r.pc = "string" ->
            IF peek(r) # "\"" /\ ~isAtEnd(r) THEN stringLoop(r) ELSE stringEnd(r)
      [] r.pc = "number" ->
            IF isDigit(peek(r)) THEN advance(r)
            ELSE IF hasFraction(r) THEN [advance(r) EXCEPT !.pc = "fraction"]
            ELSE numberEnd(r)
      [] r.pc = "fraction" ->
            IF isDigit(peek(r)) THEN advance(r) ELSE numberEnd(r)
      [] r.pc = "identifier" ->
            IF isAlphaNumeric(peek(r)) THEN advance(r) ELSE identifierEnd(r)
      [] r.pc = "comment" ->
            IF peek(r) # "\n" /\ ~isAtEnd(r) THEN advance(r)
            ELSE [r EXCEPT !.pc = "scan"]

RECURSIVE RunScan(_)
RunScan(r) == IF r.pc = "done" THEN r ELSE RunScan(ScanStep(r))

\* scanTokens(s) run to completion on a new Scanner for src
scanTokens(src, flag, errs) == RunScan(ScannerState(src, flag, errs))

-----------------------------------------------------------------------------
(* Inputs *)

Alphabet == {"(", ".", "!", "=", "/", " ", "\n", "\"", "1", "o", "r", "_", "@"}

SeqsUpTo(S, n) == UNION {[1..k -> S] : k \in 0..n}

\* Longer texts that the short ones cannot spell
Corpus == {
    <<"o", "r", " ", "o", "r", "c", "h", "i", "d">>,
    <<"o", "r", "_">>,
    <<"o", "r", "1">>,
    <<"o", "r", "c", "h", "i", "d">>,
    <<"c", "o", "n", "s", "t", "r", "u", "c", "t", "o", "r">>,
    <<"t", "o", "S", "t", "r", "i", "n", "g">>,
    <<"v", "a", "l", "u", "e", "O", "f">>,
    <<"_", "_", "p", "r", "o", "t", "o", "_", "_">>,
    <<"@", "1", "2", "3">>,
    <<"/", "/", " ", "c", "\n", "1", "2", "3">>,
    <<"1", "2", ".", "5">>,
    <<"1", "2", ".">>,
    <<"1", ".", "2", ".", "3">>,
    <<".", "5">>,
    <<"\"", "a", "b", "c", "\"">>,
    <<"\"", "a", "b", "c">>,
    <<"\"", "a", "\n", "b", "\"", " ", "x">>,
    <<"=", "=", "=">>,
    <<"<", "=", ">">>,
    <<"!", "=", " ", "!">>,
    <<"w", "h", "i", "l", "e", "(", "t", "r", "u", "e", ")", "{", "p", "r", "i", "n", "t", " ", "1", ";", "}">>,
    <<"a", "\t", "\r", " ", "b">>,
    <<"/", "/">>,
    <<"1", "+", "2", "-", "3", "*", "4", "/", "5", ",", "x">>,
    <<"\"", "a", "\\", "\"", "b", "\"">>,
    <<"x", "\n", "\"", "a", "\n", "b">>,
    <<"A", "_", "z", "9", " ", "Z">>
}

Sources == SeqsUpTo(Alphabet, MaxLen) \cup Corpus

\* The console iterator delivers lines without their terminator
LineAlphabet == {"\"", "1", ".", "o", "r", "/", "@"}

Lines == SeqsUpTo(LineAlphabet, MaxLineLen) \ {<<>>}

RuntimeArgs == <<"bun", "index.ts">>

ArgVectors == {RuntimeArgs \o a : a \in SeqsUpTo({"a.lox"}, 2)}

NoExit == -1

-----------------------------------------------------------------------------
(* The state machine *)

\* The scanner state held in the variables
sc == [source |-> source, tokens |-> tokens, start |-> start,
       current |-> current, line |-> line, had_error |-> had_error,
       errors |-> errors, pc |-> pc]

Update(r) ==
    /\ source' = r.source
    /\ tokens' = r.tokens
    /\ start' = r.start
    /\ current' = r.current
    /\ line' = r.line
    /\ had_error' = r.had_error
    /\ errors' = r.errors
    /\ pc' = r.pc

\* scanTokens called on a source text, as a function under test
Init ==
    /\ source \in Sources
    /\ tokens = <<>>
    /\ start = 0
    /\ current = 0
    /\ line = 1
    /\ had_error = FALSE
    /\ errors = <<>>
    /\ pc = "scan"
    /\ argv = <<>>
    /\ stdout = <<>>
    /\ exitCode = NoExit
    /\ linesRead = 0
    /\ scans = 0

ScanLoop ==
    /\ pc = "scan"
    /\ ~isAtEnd(sc)
    /\ Update(scanLoop(sc))
    /\ UNCHANGED driverVars

ScanEnd ==
    /\ pc = "scan"
    /\ isAtEnd(sc)
    /\ Update(scanEnd(sc))
    /\ UNCHANGED driverVars

StringLoop ==
    /\ pc = "string"
    /\ peek(sc) # "\"" /\ ~isAtEnd(sc)
    /\ Update(stringLoop(sc))
    /\ UNCHANGED driverVars

StringEnd ==
    /\ pc = "string"
    /\ ~(peek(sc) # "\"" /\ ~isAtEnd(sc))
    /\ Update(stringEnd(sc))
    /\ UNCHANGED driverVars

NumberLoop ==
    /\ pc = "number"
    /\ isDigit(peek(sc))
    /\ Update(advance(sc))
    /\ UNCHANGED driverVars

NumberDot ==
    /\ pc = "number"
    /\ ~isDigit(peek(sc))
    /\ hasFraction(sc)
    /\ Update([advance(sc) EXCEPT !.pc = "fraction"])
    /\ UNCHANGED driverVars

FractionLoop ==
    /\ pc = "fraction"
    /\ isDigit(peek(sc))
    /\ Update(advance(sc))
    /\ UNCHANGED driverVars

NumberEnd ==
    /\ \/ pc = "number" /\ ~isDigit(peek(sc)) /\ ~hasFraction(sc)
       \/ pc = "fraction" /\ ~isDigit(peek(sc))
    /\ Update(numberEnd(sc))
    /\ UNCHANGED driverVars

IdentifierLoop ==
    /\ pc = "identifier"
    /\ isAlphaNumeric(peek(sc))
    /\ Update(advance(sc))
    /\ UNCHANGED driverVars

IdentifierEnd ==
    /\ pc = "identifier"
    /\ ~isAlphaNumeric(peek(sc))
    /\ Update(identifierEnd(sc))
    /\ UNCHANGED driverVars

\* CommentLoop that stops only at the end of the input
CommentLoopPastNewline ==
    /\ pc = "comment"
    /\ ~isAtEnd(sc)
    /\ Update(advance(sc))
    /\ UNCHANGED driverVars

CommentLoop ==
    /\ pc = "comment"
    /\ peek(sc) # "\n" /\ ~isAtEnd(sc)
    /\ Update(advance(sc))
    /\ UNCHANGED driverVars

CommentEnd ==
    /\ pc = "comment"
    /\ ~(peek(sc) # "\n" /\ ~isAtEnd(sc))
    /\ Update([sc EXCEPT !.pc = "scan"])
    /\ UNCHANGED driverVars

ScanNext ==
    \/ ScanLoop \/ ScanEnd
    \/ StringLoop \/ StringEnd
    \/ NumberLoop \/ NumberDot \/ FractionLoop \/ NumberEnd
    \/ IdentifierLoop \/ IdentifierEnd
    \/ CommentLoop \/ CommentEnd

Next == ScanNext

Spec == Init /\ [][Next]_vars

\* The scan is one synchronous call: it runs until it returns
FairSpec == Spec /\ WF_vars(Next)

-----------------------------------------------------------------------------
(* Properties of a scan *)

TokenTypes(ts) == [i \in 1..Len(ts) |-> ts[i].type]

EofPositions == {i \in 1..Len(tokens) : tokens[i].type = "EOF"}

\* C1: when scanTokens has finished, the token list holds exactly one EOF
\* token, that token is the last element and its lexeme is empty; while the
\* scan is running the list holds no EOF token.
EofOnceAndLast ==
    /\ pc = "done" =>
          /\ EofPositions = {Len(tokens)}
          /\ Len(tokens) >= 1
          /\ tokens[Len(tokens)].lexeme = <<>>
    /\ pc # "done" => EofPositions = {}

EofAfterTokens == pc = "done" /\ Len(tokens) >= 2

\* An iteration of the main loop or of an inner loop (string, number,
\* identifier, line comment) is a step that starts in the loop with the
\* loop's condition true.
LoopIteration ==
    \/ pc = "scan" /\ ~isAtEnd(sc)
    \/ pc = "string" /\ peek(sc) # "\"" /\ ~isAtEnd(sc)
    \/ pc \in {"number", "fraction"} /\ isDigit(peek(sc))
    \/ pc = "identifier" /\ isAlphaNumeric(peek(sc))
    \/ pc = "comment" /\ peek(sc) # "\n" /\ ~isAtEnd(sc)

\* C2: every iteration of the main loop and of every inner loop strictly
\* increases current, no step decreases it, and the scan reaches the state
\* where current >= length(source) and the EOF token has been pushed.
ScanTerminates ==
    /\ [][/\ LoopIteration => current' > current
          /\ current' >= current]_vars
    /\ <>(/\ pc = "done"
          /\ current >= Len(source)
          /\ Len(tokens) >= 1
          /\ tokens[Len(tokens)].type = "EOF")

ScanFinishedLongInput == pc = "done" /\ Len(source) >= MaxLen /\ current = Len(source)


\* The number of newline characters among the first off characters of src
NewlinesBefore(src, off) == Cardinality({i \in 1..off : src[i] = "\n"})

TokenPushed == Len(tokens') = Len(tokens) + 1

\* C3: every token's line is the 1-based number of the source line on which
\* its lexeme starts: when a token is pushed, its line is 1 plus the number
\* of newlines before the lexeme's first character (for EOF, whose lexeme is
\* empty, before the end of the text).
TokenLineIsStartLine ==
    [][TokenPushed =>
          tokens'[Len(tokens')].line =
              1 + NewlinesBefore(source,
                                 IF pc' = "done" THEN Len(source) ELSE start')]_vars

IdentStart == LowerCase \cup UpperCase \cup {"_"}

IdentChars == IdentStart \cup Digits

IsIdentifierText(lx) ==
    /\ lx # <<>>
    /\ lx[1] \in IdentStart
    /\ \A j \in 1..Len(lx) : lx[j] \in IdentChars

\* C4: every token whose lexeme is an identifier run (letters, digits and
\* underscores, starting with a letter or underscore) that is not one of the
\* 16 reserved words has kind IDENTIFIER.
NonReservedIsIdentifier ==
    \A i \in 1..Len(tokens) :
        (IsIdentifierText(tokens[i].lexeme) /\ tokens[i].lexeme \notin DOMAIN keywords)
            => tokens[i].type = "IDENTIFIER"

IsProperPrefix(w, lx) == Len(w) < Len(lx) /\ SubSeq(lx, 1, Len(w)) = w

HasReservedPrefix(lx) == \E w \in DOMAIN keywords : IsProperPrefix(w, lx)

\* C5: a reserved-word kind is emitted only for a lexeme that equals the
\* reserved word, and the lexeme identifier lexing emits is the whole maximal
\* run: it is not followed by a letter, digit or underscore, so a run that
\* has a reserved word as a proper prefix is one IDENTIFIER token.
KeywordNeedsWholeRun ==
    /\ [](\A i \in 1..Len(tokens) :
            tokens[i].type \in ReservedKinds =>
                /\ tokens[i].lexeme \in DOMAIN keywords
                /\ keywords[tokens[i].lexeme] = tokens[i].type)
    /\ [][(pc = "identifier" /\ pc' = "scan") =>
            LET t == tokens'[Len(tokens')]
            IN  /\ TokenPushed
                /\ t.lexeme = SubSeq(source, start + 1, current)
                /\ current = Len(source) \/ source[current + 1] \notin IdentChars
                /\ (HasReservedPrefix(t.lexeme) /\ t.lexeme \notin DOMAIN keywords)
                      => t.type = "IDENTIFIER"]_vars

ReservedPrefixIdentifier ==
    \E i \in 1..Len(tokens) :
        tokens[i].type = "IDENTIFIER" /\ HasReservedPrefix(tokens[i].lexeme)


\* The characters that some lexical rule of the main dispatch accepts
RuleChars ==
    DOMAIN SingleCharKind \cup DOMAIN OneCharKind \cup
    {"/", " ", "\r", "\t", "\n", "\""} \cup IdentChars

\* The main dispatch is about to read a character that matches no rule
BadCharMet == pc = "scan" /\ ~isAtEnd(sc) /\ source[current + 1] \notin RuleChars

\* The scanner state after the step
scNext == [source |-> source', tokens |-> tokens', start |-> start',
           current |-> current', line |-> line', had_error |-> had_error',
           errors |-> errors', pc |-> pc']

Diagnostic(ln, message) == [line |-> ln, where |-> "", message |-> message]

\* C6: a character that matches no lexical rule, met by the main dispatch,
\* adds exactly one 'Unexpected character' diagnostic with the current line,
\* adds no token, consumes that one character and leaves the scan in the main
\* loop; the tokens of the whole scan are those of the same text with a space
\* in place of that character.
UnexpectedCharacterSkipped ==
    [][BadCharMet =>
          /\ errors' = Append(errors, Diagnostic(line, "Unexpected character."))
          /\ had_error'
          /\ tokens' = tokens
          /\ current' = current + 1
          /\ line' = line
          /\ pc' = "scan"
          /\ RunScan(scNext).tokens =
                scanTokens([source EXCEPT ![current + 1] = " "], FALSE, <<>>).tokens]_vars

UnexpectedThenToken ==
    /\ pc = "done"
    /\ Len(source) >= 2
    /\ source[1] \notin RuleChars
    /\ errors = <<Diagnostic(1, "Unexpected character.")>>
    /\ Len(tokens) >= 2

UnterminatedReports == {i \in 1..Len(errors) : errors[i].message = "Unterminated string."}

EofToken(ln) == [type |-> "EOF", lexeme |-> <<>>, literal |-> NoLiteral, line |-> ln]

\* C7: when string lexing finds the input ended before a closing quote, it
\* adds exactly one 'Unterminated string' diagnostic carrying the line
\* counter's value at end of input and pushes no token; the scan is then at
\* the end of the input in the main loop, where the only push is EOF.
UnterminatedStringReported ==
    /\ [](/\ Cardinality(UnterminatedReports) <= 1
          /\ (pc = "done" /\ UnterminatedReports # {}) =>
                /\ UnterminatedReports = {Len(errors)}
                /\ errors[Len(errors)].line = tokens[Len(tokens)].line)
    /\ [][(pc = "string" /\ isAtEnd(sc)) =>
             /\ errors' = Append(errors, Diagnostic(line, "Unterminated string."))
             /\ had_error'
             /\ tokens' = tokens
             /\ current' = current /\ line' = line
             /\ pc' = "scan"]_vars
    /\ [][(pc = "scan" /\ isAtEnd(sc)) =>
             /\ tokens' = Append(tokens, EofToken(line))
             /\ pc' = "done"]_vars

UnterminatedAfterTokens ==
    /\ pc = "done"
    /\ UnterminatedReports # {}
    /\ Len(tokens) >= 2


-----------------------------------------------------------------------------
(* Scanning a concatenation: scanTokens on texts of the form A + "\n" + B *)

ConcatAlphabet == {"\"", "\n", "/", "1", "a"}

PartCorpus == {
    <<"1", ".", "5">>,
    <<"1", ".">>,
    <<"o", "r">>,
    <<"/", "/", " ", "c">>,
    <<"\"", "a", "b", "\"">>,
    <<"\"", "a", "\n", "b", "\"">>,
    <<"\"", "a", "b">>,
    <<"@">>,
    <<"a", " ", "=", "=", "1">>
}

Parts == SeqsUpTo(ConcatAlphabet, MaxPart) \cup PartCorpus

ConcatSources == {a \o <<"\n">> \o b : a, b \in Parts}

InitConcat ==
    /\ source \in ConcatSources
    /\ tokens = <<>>
    /\ start = 0
    /\ current = 0
    /\ line = 1
    /\ had_error = FALSE
    /\ errors = <<>>
    /\ pc = "scan"
    /\ argv = <<>>
    /\ stdout = <<>>
    /\ exitCode = NoExit
    /\ linesRead = 0
    /\ scans = 0

SpecConcat == InitConcat /\ [][Next]_vars

\* Kind, lexeme and line of the tokens of ts other than EOF, the lines
\* increased by k
TokensShifted(ts, k) ==
    LET body == SelectSeq(ts, LAMBDA t : t.type # "EOF")
    IN  [i \in 1..Len(body) |-> [type |-> body[i].type, lexeme |-> body[i].lexeme,
                                 line |-> body[i].line + k]]

ScanOf(src) == scanTokens(src, FALSE, <<>>)

LineCount(src) == 1 + NewlinesBefore(src, Len(src))

\* The text before and after the newline at position k of the source
PartBefore(k) == SubSeq(source, 1, k - 1)

PartAfter(k) == SubSeq(source, k + 1, Len(source))

\* The tokens of the finished scan are those of A followed by those of B
\* moved down by A's line count, for the split at position k
SplitsAt(k) ==
    TokensShifted(tokens, 0) =
        TokensShifted(ScanOf(PartBefore(k)).tokens, 0)
            \o TokensShifted(ScanOf(PartAfter(k)).tokens, LineCount(PartBefore(k)))

NewlinePositions == {k \in 1..Len(source) : source[k] = "\n"}

\* C8 as stated: for all A and B, scanning A + newline + B gives, EOF aside,
\* the tokens of A followed by the tokens of B, with the same kinds and
\* lexemes and B's lines increased by A's line count.
ConcatScansSeparately ==
    pc = "done" => \A k \in NewlinePositions : SplitsAt(k)

LeavesStringOpen(src) ==
    \E i \in 1..Len(ScanOf(src).errors) :
        ScanOf(src).errors[i].message = "Unterminated string."

\* C8 amended: the same, for every A whose own scan reports no unterminated
\* string (A does not end inside an open string literal) and every B.
ConcatScansSeparatelyUnlessOpenString ==
    pc = "done" =>
        \A k \in NewlinePositions : ~LeavesStringOpen(PartBefore(k)) => SplitsAt(k)

ConcatOfTwoTokenTexts ==
    /\ pc = "done"
    /\ \E k \in NewlinePositions :
          /\ ~LeavesStringOpen(PartBefore(k))
          /\ Len(ScanOf(PartBefore(k)).tokens) >= 2
          /\ Len(ScanOf(PartAfter(k)).tokens) >= 2
          /\ LineCount(PartBefore(k)) >= 2


-----------------------------------------------------------------------------
(* The driver: main, run_file, run_prompt and run *)

Usage == "Usage: gravlax [script]"

Prompt == "> "

\* No Scanner exists: run() is not being executed (its Scanner and the
\* variables of scanTokens are local to the call)
NoScanner ==
    /\ source = <<>>
    /\ tokens = <<>>
    /\ start = 0
    /\ current = 0
    /\ line = 1

\* run() returns: its Scanner is gone
DropScanner ==
    /\ source' = <<>>
    /\ tokens' = <<>>
    /\ start' = 0
    /\ current' = 0
    /\ line' = 1

\* The process is started: nothing has run, the runtime has filled argv
InitDriver ==
    /\ argv \in ArgVectors
    /\ pc = "main"
    /\ NoScanner
    /\ had_error = FALSE
    /\ errors = <<>>
    /\ stdout = <<>>
    /\ exitCode = NoExit
    /\ linesRead = 0
    /\ scans = 0

\* run() whose scanner numbers lines through the session, not the text
runSessionLine(text) ==
    /\ source' = text
    /\ tokens' = <<>>
    /\ start' = 0
    /\ current' = 0
    /\ line' = linesRead + 1
    /\ pc' = "scan"
    /\ scans' = scans + 1

\* run(source): a new Scanner, and scanTokens up to its main loop
run(text) ==
    /\ source' = text
    /\ tokens' = <<>>
    /\ start' = 0
    /\ current' = 0
    /\ line' = 1
    /\ pc' = "scan"
    /\ scans' = scans + 1

\* main(), up to the first await of the function it calls
Main ==
    /\ pc = "main"
    /\ IF Len(argv) > 2
       THEN /\ stdout' = Append(stdout, Usage)
            /\ exitCode' = 64
            /\ pc' = "exited"
       ELSE IF Len(argv) = 1
       THEN /\ pc' = "run_file"
            /\ UNCHANGED <<stdout, exitCode>>
       ELSE /\ stdout' = Append(stdout, Prompt)
            /\ pc' = "read"
            /\ UNCHANGED exitCode
    /\ UNCHANGED <<scanVars, argv, linesRead, scans>>

\* run_file(): the file's text arrives and is scanned
RunFile ==
    /\ pc = "run_file"
    /\ \E text \in Sources : run(text)
    /\ UNCHANGED <<had_error, errors, argv, stdout, exitCode, linesRead>>

\* run_file(): after run(text)
RunFileExit ==
    /\ pc = "done"
    /\ Len(argv) = 1
    /\ exitCode' = IF had_error THEN 65 ELSE 0
    /\ pc' = "exited"
    /\ UNCHANGED <<scanVars, argv, stdout, linesRead, scans>>

\* run_prompt(): the console delivers a non-empty line
ReadLine ==
    /\ pc = "read"
    /\ linesRead < MaxLines
    /\ \E text \in Lines : run(text)
    /\ stdout' = Append(stdout, Prompt)
    /\ linesRead' = linesRead + 1
    /\ UNCHANGED <<had_error, errors, argv, exitCode>>

\* ReadEmptyLine without the break: the empty line is scanned like any other
ReadEmptyLineScanned ==
    /\ pc = "read"
    /\ linesRead < MaxLines
    /\ run(<<>>)
    /\ stdout' = Append(stdout, Prompt)
    /\ linesRead' = linesRead + 1
    /\ UNCHANGED <<had_error, errors, argv, exitCode>>

\* run_prompt(): the console delivers an empty line
ReadEmptyLine ==
    /\ pc = "read"
    /\ stdout' = Append(stdout, Prompt)
    /\ linesRead' = linesRead + 1
    /\ exitCode' = 0
    /\ pc' = "exited"
    /\ UNCHANGED <<scanVars, argv, scans>>

\* run_prompt(): the console has no more lines
EndOfInput ==
    /\ pc = "read"
    /\ exitCode' = 0
    /\ pc' = "exited"
    /\ UNCHANGED <<scanVars, argv, stdout, linesRead, scans>>

\* ResetFlag that leaves the flag as the scan set it
ResetFlagKept ==
    /\ pc = "done"
    /\ Len(argv) # 1
    /\ pc' = "read"
    /\ DropScanner
    /\ UNCHANGED <<had_error, errors, driverVars>>

\* run_prompt(): run(line) returns, its Scanner is dropped, the flag is reset
ResetFlag ==
    /\ pc = "done"
    /\ Len(argv) # 1
    /\ had_error' = FALSE
    /\ pc' = "read"
    /\ DropScanner
    /\ UNCHANGED <<errors, driverVars>>

\* RunFile and RunFileExit are the steps of run_file().  They are enabled only
\* after Main has taken its argv.length === 1 branch; argv always holds the
\* runtime path and the script path, so no behaviour takes them.
NextDriver ==
    \/ Main
    \/ ReadLine \/ ReadEmptyLine \/ EndOfInput \/ ResetFlag
    \/ ScanNext

SpecDriver == InitDriver /\ [][NextDriver]_vars

\* The path arguments the user gave
PathArgs == Len(argv) - Len(RuntimeArgs)

InUsage == exitCode = 64 /\ stdout = <<Usage>> /\ scans = 0

InInteractive == stdout # <<>> /\ stdout[1] = Prompt

InBatch == stdout = <<>> /\ (pc = "run_file" \/ scans = 1)

\* C9: once main has chosen, exactly one path argument has entered batch
\* mode, the usage message with exit status 64 and no scan occurs only with
\* more than one path argument, and no path argument has entered interactive
\* mode.
ModeByPathArguments ==
    pc # "main" =>
        /\ PathArgs = 1 => InBatch
        /\ InUsage => PathArgs > 1
        /\ PathArgs = 0 => InInteractive

\* C10: a run given one file path scans the file exactly once and ends with
\* status 65 if a diagnostic was reported during the scan and with status 0
\* otherwise; the flag set by the first diagnostic stays set until then.
BatchExitStatus ==
    /\ (PathArgs = 1 /\ pc = "exited") =>
          /\ scans = 1
          /\ exitCode = IF errors # <<>> THEN 65 ELSE 0
    /\ (PathArgs = 1 /\ errors # <<>>) => had_error


-----------------------------------------------------------------------------
(* Properties of the interactive session *)

\* The step in which run_prompt hands a line to run()
LineScanBegins == pc = "read" /\ pc' = "scan"

\* C11: in interactive mode the error flag is false whenever the scan of a
\* line begins, whatever earlier lines reported; when the scan of a line has
\* finished, with or without diagnostics, the session goes back to reading
\* with the flag false and without an exit status, and the process never
\* ends with status 65.
FlagFalseAtEachLine ==
    /\ [][LineScanBegins => ~had_error']_vars
    /\ [][pc = "done" => (pc' = "read" /\ ~had_error' /\ exitCode' = NoExit)]_vars
    /\ [](exitCode # 65)

SecondLineAfterDiagnostics ==
    /\ pc = "scan"
    /\ current = 0
    /\ linesRead = 2
    /\ errors # <<>>
    /\ ~had_error


\* es ends with the diagnostics ds
EndsWith(es, ds) ==
    /\ Len(ds) <= Len(es)
    /\ SubSeq(es, Len(es) - Len(ds) + 1, Len(es)) = ds

\* C12: each interactive line is scanned with fresh scanner state (start 0,
\* current 0, line 1, no tokens), and when its scan has finished the tokens,
\* their lines and the diagnostics it added are those of scanning that
\* line's text alone, whatever lines came before.
LineScannedAlone ==
    /\ [][LineScanBegins =>
            /\ source' \in Lines
            /\ start' = 0 /\ current' = 0 /\ line' = 1
            /\ tokens' = <<>>
            /\ errors' = errors]_vars
    /\ [](pc = "done" =>
            /\ tokens = ScanOf(source).tokens
            /\ line = ScanOf(source).line
            /\ EndsWith(errors, ScanOf(source).errors))

SecondLineScannedAfterErrors ==
    /\ pc = "done"
    /\ linesRead = 2
    /\ Len(tokens) >= 2
    /\ Len(errors) > Len(ScanOf(source).errors)
    /\ ScanOf(source).errors # <<>>


\* The step in which run_prompt returns
SessionEnds == pc = "read" /\ pc' = "exited"

\* C13: in interactive mode an empty line, or the end of the input, ends the
\* session with status 0 and is not scanned; nothing is read or scanned after
\* the session has ended; every line handed to the scanner is non-empty and
\* each line delivered before the end is scanned exactly once.
EmptyLineEndsSession ==
    /\ [][SessionEnds =>
            /\ scans' = scans
            /\ exitCode' = 0
            /\ <<source, tokens, errors>>' = <<source, tokens, errors>>]_vars
    /\ [][pc # "exited"]_vars
    /\ [][LineScanBegins =>
            /\ source' # <<>>
            /\ scans' = scans + 1
            /\ linesRead' = linesRead + 1]_vars
    /\ [](PathArgs = 0 =>
            /\ exitCode \in {NoExit, 0}
            /\ pc # "exited" => scans = linesRead
            /\ pc = "exited" => linesRead - scans \in {0, 1})

EmptyLineAfterScannedLine ==
    /\ pc = "exited"
    /\ exitCode = 0
    /\ scans >= 1
    /\ linesRead = scans + 1


-----------------------------------------------------------------------------
(* Properties of the lexical rules *)

Token(t, lx, ln) == [type |-> t, lexeme |-> lx, literal |-> NoLiteral, line |-> ln]

LastPushed == tokens'[Len(tokens')]

\* The main dispatch is about to read character c
Dispatching(c) == pc = "scan" /\ ~isAtEnd(sc) /\ source[current + 1] = c

DotPositions(lx) == {j \in 1..Len(lx) : lx[j] = "."}

\* C14: a NUMBER lexeme holds at most one dot, with digits on both sides of
\* it and only digits elsewhere; a number ends before a dot only when it
\* already holds one or no digit follows the dot; every dot met by the main
\* dispatch is pushed as a DOT token of its own.
DotBelongsToNumberOnlyBetweenDigits ==
    /\ [](\A i \in 1..Len(tokens) :
            tokens[i].type = "NUMBER" =>
                LET lx == tokens[i].lexeme
                IN  /\ Cardinality(DotPositions(lx)) <= 1
                    /\ \A j \in 1..Len(lx) :
                          IF lx[j] = "." THEN 1 < j /\ j < Len(lx) ELSE lx[j] \in Digits)
    /\ [][(pc \in {"number", "fraction"} /\ pc' = "scan"
              /\ current < Len(source) /\ source[current + 1] = ".") =>
            \/ pc = "fraction"
            \/ current + 1 = Len(source)
            \/ source[current + 2] \notin Digits]_vars
    /\ [][Dispatching(".") =>
            /\ tokens' = Append(tokens, Token("DOT", <<".">>, line))
            /\ current' = current + 1
            /\ pc' = "scan"]_vars
    /\ [](/\ TokenTypes(ScanOf(<<"1", "2", ".">>).tokens) = <<"NUMBER", "DOT", "EOF">>
          /\ TokenTypes(ScanOf(<<"1", ".", "2", ".", "3">>).tokens)
                = <<"NUMBER", "DOT", "NUMBER", "EOF">>
          /\ ScanOf(<<"1", ".", "2", ".", "3">>).tokens[1].literal
                = [tag |-> "number", mant |-> 12, scale |-> 1]
          /\ TokenTypes(ScanOf(<<".", "5">>).tokens) = <<"DOT", "NUMBER", "EOF">>)

NumberThenDot ==
    /\ pc = "done"
    /\ TokenTypes(tokens) = <<"NUMBER", "DOT", "NUMBER", "EOF">>
    /\ Len(tokens[1].lexeme) = 3

\* C15: for each of ! = < > met by the main dispatch: when the next
\* character is =, one two-character token is pushed and both characters are
\* consumed; otherwise the one-character token is pushed and only that
\* character is consumed.
OperatorLooksAheadOneCharacter ==
    /\ [][(pc = "scan" /\ ~isAtEnd(sc) /\ source[current + 1] \in DOMAIN OneCharKind) =>
            LET c == source[current + 1]
            IN  /\ pc' = "scan"
                /\ IF current + 1 < Len(source) /\ source[current + 2] = "="
                   THEN /\ tokens' = Append(tokens, Token(TwoCharKind[c], <<c, "=">>, line))
                        /\ current' = current + 2
                   ELSE /\ tokens' = Append(tokens, Token(OneCharKind[c], <<c>>, line))
                        /\ current' = current + 1]_vars
    /\ [](TokenTypes(ScanOf(<<"=", "=", "=">>).tokens) = <<"EQUAL_EQUAL", "EQUAL", "EOF">>)

TwoCharThenOneChar ==
    /\ pc = "done"
    /\ TokenTypes(tokens) = <<"BANG_EQUAL", "EQUAL", "EOF">>

\* C16: a line comment adds no token, diagnostic or line; its loop never
\* consumes a newline, so when it stops before the end of the input current
\* points at the newline; the main dispatch then consumes that newline and
\* counts it.
CommentLeavesNewline ==
    /\ [][(pc = "scan" /\ pc' = "comment") =>
            /\ current' = current + 2
            /\ <<tokens, errors, line>>' = <<tokens, errors, line>>]_vars
    /\ [][pc = "comment" =>
            /\ <<tokens, errors, line>>' = <<tokens, errors, line>>
            /\ current' > current => source[current + 1] # "\n"
            /\ pc' = "scan" =>
                  /\ current' = current
                  /\ current < Len(source) => source[current + 1] = "\n"]_vars
    /\ [][Dispatching("\n") =>
            /\ line' = line + 1
            /\ current' = current + 1
            /\ tokens' = tokens
            /\ pc' = "scan"]_vars

TokenOnLineAfterComment ==
    /\ pc = "done"
    /\ Len(source) >= 2
    /\ source[1] = "/" /\ source[2] = "/"
    /\ Len(tokens) >= 2
    /\ tokens[1].line = 2


StringTokens == {i \in 1..Len(tokens) : tokens[i].type = "STRING"}

\* C17: a STRING token's lexeme starts at the opening quote and ends at the
\* first quote after it, whatever precedes that quote; its literal is the
\* text strictly between the two quotes, two characters shorter than the
\* lexeme.
StringLiteralIsTextBetweenQuotes ==
    /\ [](\A i \in StringTokens :
            LET lx  == tokens[i].lexeme
                lit == tokens[i].literal
            IN  /\ Len(lx) >= 2
                /\ lx[1] = "\"" /\ lx[Len(lx)] = "\""
                /\ \A j \in 2..(Len(lx) - 1) : lx[j] # "\""
                /\ lit = [tag |-> "string", value |-> SubSeq(lx, 2, Len(lx) - 1)]
                /\ Len(lit.value) = Len(lx) - 2)
    /\ [][(pc = "string" /\ TokenPushed) =>
            /\ LastPushed.type = "STRING"
            /\ LastPushed.lexeme = SubSeq(source, start + 1, current')
            /\ source[start + 1] = "\""]_vars

StringEndingInBackslash ==
    \E i \in StringTokens :
        /\ Len(tokens[i].lexeme) >= 3
        /\ tokens[i].lexeme[Len(tokens[i].lexeme) - 1] = "\\"

\* C18: in every state of a scan 0 <= start <= current <= length(source);
\* the line counter never decreases; current only grows from a value below
\* length(source), so advance() is never called at the end of the input.
CursorStaysInsideSource ==
    /\ [](0 <= start /\ start <= current /\ current <= Len(source))
    /\ [][line' >= line]_vars
    /\ [][current' > current => current < Len(source)]_vars

CursorAtEndOnLaterLine ==
    /\ pc = "done"
    /\ 0 < start /\ start < current /\ current = Len(source)
    /\ line > 1

\* C19: the line counter is 1 plus the number of newlines consumed so far,
\* wherever they occur; so the EOF token's line is 1 plus the number of
\* newlines in the source; the lines of the token list never decrease.
LineCounterCountsNewlines ==
    /\ [](line = 1 + NewlinesBefore(source, current))
    /\ [](pc = "done" => tokens[Len(tokens)] = EofToken(LineCount(source)))
    /\ [](\A i \in 1..(Len(tokens) - 1) : tokens[i].line <= tokens[i + 1].line)

NewlinesInsideAndOutsideString ==
    /\ pc = "done"
    /\ Len(tokens) >= 2
    /\ tokens[Len(tokens)].line >= 3
    /\ UnterminatedReports # {}


\* A line has been read and its scan or the reset of the flag is still to come
LineInHand == pc \notin {"main", "read", "exited", "run_file"}

\* C20: each round of the interactive loop displays the prompt, reads a
\* line, scans it and resets the flag, in that order: while a line that has
\* been read is being scanned, or the flag is still to be reset, one prompt
\* has been written per line read, the prompt for the next line not yet.
PromptReadScanResetOrder ==
    (InInteractive /\ LineInHand) => Len(stdout) = linesRead

=============================================================================
